---------------------------- MODULE Spec2Model ----------------------------
(***************************************************************************)
(* Model of ClearText's text engine (src/src/lib/nonprintable.ts) and of   *)
(* the page state that drives it (src/src/app/page.tsx).                   *)
(*                                                                         *)
(* A text is a JavaScript string: a sequence of UTF-16 code units          *)
(* (integers 0..65535).  Indices are 0-based as in the source; the         *)
(* sequence element of index i is s[i + 1].                                *)
(***************************************************************************)
EXTENDS Integers, Sequences, FiniteSets, TLC

VARIABLES
    text,        \* page.tsx: const [text, setText]
    opts,        \* page.tsx: const [opts, setOpts]
    lastIndex,   \* NON_PRINTABLE_REGEX.lastIndex (module-level, shared)
    matches,     \* page.tsx: findNonPrintable(text)
    positioned,  \* page.tsx: findNonPrintableWithPositions(text)
    summary,     \* page.tsx: summarizeNonPrintable(text)
    preview,     \* page.tsx: visualizeWithTokens(text) -> {html, count}
    prev,        \* the text the last onClean was applied to
    phase,       \* the last handler: "init", "changed", "pasted", "reading",
                 \* "uploaded", "cleaned", "cleared", "toggled", "listmode",
                 \* "jumped", "rowjumped", "called"
    jump,        \* the last jump: line and column asked for, the index jumped
                 \* to, the selection set in the textarea
    fileName,    \* page.tsx: const [fileName, setFileName]: <<>> for null, <<name>>
    pending,     \* the files whose file.text() promise has not resolved yet
    listMode,    \* page.tsx: const [listMode, setListMode]
    returned     \* the last direct call of an exported function: its name, the
                 \* regex's lastIndex when it started, the value it returned

vars ==
    <<text, opts, lastIndex, matches, positioned, summary, preview, prev, phase,
      jump, fileName, pending, listMode, returned>>

-----------------------------------------------------------------------------
(* Bounds of the model *)

\* longest typed text, in code units, of the scan specification
MaxLen == 3

\* most file reads in flight at once
MaxPending == 1

\* longest multi-unit text, in code units, of the cleaning specification
MaxCleanLen == 3

-----------------------------------------------------------------------------
(* Code points the source names *)

TAB == 9
LF == 10
CR == 13
NBSP == 160
ZWSP == 8203
LS == 8232
PS == 8233

-----------------------------------------------------------------------------
(* JavaScript string primitives *)

Undefined == -1

IsHighSurrogate(u) == u >= 55296 /\ u <= 56319   \* D800..DBFF
IsLowSurrogate(u) == u >= 56320 /\ u <= 57343    \* DC00..DFFF

\* String.prototype.codePointAt(i): the code point starting at unit i, a
\* surrogate pair read as one; undefined past the end.
codePointAt(s, i) ==
    IF i < 0 \/ i >= Len(s) THEN Undefined
    ELSE IF IsHighSurrogate(s[i + 1]) /\ i + 1 < Len(s) /\ IsLowSurrogate(s[i + 2])
         THEN (s[i + 1] - 55296) * 1024 + (s[i + 2] - 56320) + 65536
         ELSE s[i + 1]

\* String.fromCodePoint(cp): one unit below U+10000, else a surrogate pair.
fromCodePoint(cp) ==
    IF cp < 65536 THEN <<cp>>
    ELSE << 55296 + ((cp - 65536) \div 1024), 56320 + ((cp - 65536) % 1024) >>

HexDigit == <<"0", "1", "2", "3", "4", "5", "6", "7", "8", "9", "A", "B", "C", "D", "E", "F">>

RECURSIVE toString16(_)
\* Number.prototype.toString(16).toUpperCase()
toString16(n) ==
    IF n < 16 THEN HexDigit[n + 1]
    ELSE toString16(n \div 16) \o HexDigit[(n % 16) + 1]

\* `U+${codePoint.toString(16).toUpperCase().padStart(4, "0")}`
hex(codePoint) ==
    LET pad == IF codePoint < 16 THEN "000"
               ELSE IF codePoint < 256 THEN "00"
               ELSE IF codePoint < 4096 THEN "0"
               ELSE ""
    IN "U+" \o pad \o toString16(codePoint)

-----------------------------------------------------------------------------
(* Unicode general category, for the property escapes of NON_PRINTABLE_REGEX *)

\* The property escapes are read with the tables of Unicode 17.0, written
\* out below for the five categories of the regex: every code point from 0
\* to 1114111 is in exactly one of them or in none.

\* \p{Cc}: the ranges <<first, last>> of the control characters, ascending
CcRanges ==
    <<
     <<0, 31>>, <<127, 159>>
    >>

\* \p{Cf}: the ranges <<first, last>> of the format characters, ascending
CfRanges ==
    <<
     <<173, 173>>, <<1536, 1541>>, <<1564, 1564>>, <<1757, 1757>>,
     <<1807, 1807>>, <<2192, 2193>>, <<2274, 2274>>, <<6158, 6158>>,
     <<8203, 8207>>, <<8234, 8238>>, <<8288, 8292>>, <<8294, 8303>>,
     <<65279, 65279>>, <<65529, 65531>>, <<69821, 69821>>, <<69837, 69837>>,
     <<78896, 78911>>, <<113824, 113827>>, <<119155, 119162>>,
     <<917505, 917505>>, <<917536, 917631>>
    >>

\* \p{Cs}: the ranges <<first, last>> of the surrogates, ascending
CsRanges ==
    <<
     <<55296, 57343>>
    >>

\* \p{Co}: the ranges <<first, last>> of the private-use code points, ascending
CoRanges ==
    <<
     <<57344, 63743>>, <<983040, 1048573>>, <<1048576, 1114109>>
    >>

\* \p{Cn}: the ranges <<first, last>> of the noncharacters and reserved (unassigned) code points, ascending
CnRanges ==
    <<
     <<888, 889>>, <<896, 899>>, <<907, 907>>, <<909, 909>>, <<930, 930>>,
     <<1328, 1328>>, <<1367, 1368>>, <<1419, 1420>>, <<1424, 1424>>,
     <<1480, 1487>>, <<1515, 1518>>, <<1525, 1535>>, <<1806, 1806>>,
     <<1867, 1868>>, <<1970, 1983>>, <<2043, 2044>>, <<2094, 2095>>,
     <<2111, 2111>>, <<2140, 2141>>, <<2143, 2143>>, <<2155, 2159>>,
     <<2194, 2198>>, <<2436, 2436>>, <<2445, 2446>>, <<2449, 2450>>,
     <<2473, 2473>>, <<2481, 2481>>, <<2483, 2485>>, <<2490, 2491>>,
     <<2501, 2502>>, <<2505, 2506>>, <<2511, 2518>>, <<2520, 2523>>,
     <<2526, 2526>>, <<2532, 2533>>, <<2559, 2560>>, <<2564, 2564>>,
     <<2571, 2574>>, <<2577, 2578>>, <<2601, 2601>>, <<2609, 2609>>,
     <<2612, 2612>>, <<2615, 2615>>, <<2618, 2619>>, <<2621, 2621>>,
     <<2627, 2630>>, <<2633, 2634>>, <<2638, 2640>>, <<2642, 2648>>,
     <<2653, 2653>>, <<2655, 2661>>, <<2679, 2688>>, <<2692, 2692>>,
     <<2702, 2702>>, <<2706, 2706>>, <<2729, 2729>>, <<2737, 2737>>,
     <<2740, 2740>>, <<2746, 2747>>, <<2758, 2758>>, <<2762, 2762>>,
     <<2766, 2767>>, <<2769, 2783>>, <<2788, 2789>>, <<2802, 2808>>,
     <<2816, 2816>>, <<2820, 2820>>, <<2829, 2830>>, <<2833, 2834>>,
     <<2857, 2857>>, <<2865, 2865>>, <<2868, 2868>>, <<2874, 2875>>,
     <<2885, 2886>>, <<2889, 2890>>, <<2894, 2900>>, <<2904, 2907>>,
     <<2910, 2910>>, <<2916, 2917>>, <<2936, 2945>>, <<2948, 2948>>,
     <<2955, 2957>>, <<2961, 2961>>, <<2966, 2968>>, <<2971, 2971>>,
     <<2973, 2973>>, <<2976, 2978>>, <<2981, 2983>>, <<2987, 2989>>,
     <<3002, 3005>>, <<3011, 3013>>, <<3017, 3017>>, <<3022, 3023>>,
     <<3025, 3030>>, <<3032, 3045>>, <<3067, 3071>>, <<3085, 3085>>,
     <<3089, 3089>>, <<3113, 3113>>, <<3130, 3131>>, <<3141, 3141>>,
     <<3145, 3145>>, <<3150, 3156>>, <<3159, 3159>>, <<3163, 3163>>,
     <<3166, 3167>>, <<3172, 3173>>, <<3184, 3190>>, <<3213, 3213>>,
     <<3217, 3217>>, <<3241, 3241>>, <<3252, 3252>>, <<3258, 3259>>,
     <<3269, 3269>>, <<3273, 3273>>, <<3278, 3284>>, <<3287, 3291>>,
     <<3295, 3295>>, <<3300, 3301>>, <<3312, 3312>>, <<3316, 3327>>,
     <<3341, 3341>>, <<3345, 3345>>, <<3397, 3397>>, <<3401, 3401>>,
     <<3408, 3411>>, <<3428, 3429>>, <<3456, 3456>>, <<3460, 3460>>,
     <<3479, 3481>>, <<3506, 3506>>, <<3516, 3516>>, <<3518, 3519>>,
     <<3527, 3529>>, <<3531, 3534>>, <<3541, 3541>>, <<3543, 3543>>,
     <<3552, 3557>>, <<3568, 3569>>, <<3573, 3584>>, <<3643, 3646>>,
     <<3676, 3712>>, <<3715, 3715>>, <<3717, 3717>>, <<3723, 3723>>,
     <<3748, 3748>>, <<3750, 3750>>, <<3774, 3775>>, <<3781, 3781>>,
     <<3783, 3783>>, <<3791, 3791>>, <<3802, 3803>>, <<3808, 3839>>,
     <<3912, 3912>>, <<3949, 3952>>, <<3992, 3992>>, <<4029, 4029>>,
     <<4045, 4045>>, <<4059, 4095>>, <<4294, 4294>>, <<4296, 4300>>,
     <<4302, 4303>>, <<4681, 4681>>, <<4686, 4687>>, <<4695, 4695>>,
     <<4697, 4697>>, <<4702, 4703>>, <<4745, 4745>>, <<4750, 4751>>,
     <<4785, 4785>>, <<4790, 4791>>, <<4799, 4799>>, <<4801, 4801>>,
     <<4806, 4807>>, <<4823, 4823>>, <<4881, 4881>>, <<4886, 4887>>,
     <<4955, 4956>>, <<4989, 4991>>, <<5018, 5023>>, <<5110, 5111>>,
     <<5118, 5119>>, <<5789, 5791>>, <<5881, 5887>>, <<5910, 5918>>,
     <<5943, 5951>>, <<5972, 5983>>, <<5997, 5997>>, <<6001, 6001>>,
     <<6004, 6015>>, <<6110, 6111>>, <<6122, 6127>>, <<6138, 6143>>,
     <<6170, 6175>>, <<6265, 6271>>, <<6315, 6319>>, <<6390, 6399>>,
     <<6431, 6431>>, <<6444, 6447>>, <<6460, 6463>>, <<6465, 6467>>,
     <<6510, 6511>>, <<6517, 6527>>, <<6572, 6575>>, <<6602, 6607>>,
     <<6619, 6621>>, <<6684, 6685>>, <<6751, 6751>>, <<6781, 6782>>,
     <<6794, 6799>>, <<6810, 6815>>, <<6830, 6831>>, <<6878, 6879>>,
     <<6892, 6911>>, <<6989, 6989>>, <<7156, 7163>>, <<7224, 7226>>,
     <<7242, 7244>>, <<7307, 7311>>, <<7355, 7356>>, <<7368, 7375>>,
     <<7419, 7423>>, <<7958, 7959>>, <<7966, 7967>>, <<8006, 8007>>,
     <<8014, 8015>>, <<8024, 8024>>, <<8026, 8026>>, <<8028, 8028>>,
     <<8030, 8030>>, <<8062, 8063>>, <<8117, 8117>>, <<8133, 8133>>,
     <<8148, 8149>>, <<8156, 8156>>, <<8176, 8177>>, <<8181, 8181>>,
     <<8191, 8191>>, <<8293, 8293>>, <<8306, 8307>>, <<8335, 8335>>,
     <<8349, 8351>>, <<8386, 8399>>, <<8433, 8447>>, <<8588, 8591>>,
     <<9258, 9279>>, <<9291, 9311>>, <<11124, 11125>>, <<11508, 11512>>,
     <<11558, 11558>>, <<11560, 11564>>, <<11566, 11567>>, <<11624, 11630>>,
     <<11633, 11646>>, <<11671, 11679>>, <<11687, 11687>>, <<11695, 11695>>,
     <<11703, 11703>>, <<11711, 11711>>, <<11719, 11719>>, <<11727, 11727>>,
     <<11735, 11735>>, <<11743, 11743>>, <<11870, 11903>>, <<11930, 11930>>,
     <<12020, 12031>>, <<12246, 12271>>, <<12352, 12352>>, <<12439, 12440>>,
     <<12544, 12548>>, <<12592, 12592>>, <<12687, 12687>>, <<12774, 12782>>,
     <<12831, 12831>>, <<42125, 42127>>, <<42183, 42191>>, <<42540, 42559>>,
     <<42744, 42751>>, <<42973, 42992>>, <<43053, 43055>>, <<43066, 43071>>,
     <<43128, 43135>>, <<43206, 43213>>, <<43226, 43231>>, <<43348, 43358>>,
     <<43389, 43391>>, <<43470, 43470>>, <<43482, 43485>>, <<43519, 43519>>,
     <<43575, 43583>>, <<43598, 43599>>, <<43610, 43611>>, <<43715, 43738>>,
     <<43767, 43776>>, <<43783, 43784>>, <<43791, 43792>>, <<43799, 43807>>,
     <<43815, 43815>>, <<43823, 43823>>, <<43884, 43887>>, <<44014, 44015>>,
     <<44026, 44031>>, <<55204, 55215>>, <<55239, 55242>>, <<55292, 55295>>,
     <<64110, 64111>>, <<64218, 64255>>, <<64263, 64274>>, <<64280, 64284>>,
     <<64311, 64311>>, <<64317, 64317>>, <<64319, 64319>>, <<64322, 64322>>,
     <<64325, 64325>>, <<64976, 65007>>, <<65050, 65055>>, <<65107, 65107>>,
     <<65127, 65127>>, <<65132, 65135>>, <<65141, 65141>>, <<65277, 65278>>,
     <<65280, 65280>>, <<65471, 65473>>, <<65480, 65481>>, <<65488, 65489>>,
     <<65496, 65497>>, <<65501, 65503>>, <<65511, 65511>>, <<65519, 65528>>,
     <<65534, 65535>>, <<65548, 65548>>, <<65575, 65575>>, <<65595, 65595>>,
     <<65598, 65598>>, <<65614, 65615>>, <<65630, 65663>>, <<65787, 65791>>,
     <<65795, 65798>>, <<65844, 65846>>, <<65935, 65935>>, <<65949, 65951>>,
     <<65953, 65999>>, <<66046, 66175>>, <<66205, 66207>>, <<66257, 66271>>,
     <<66300, 66303>>, <<66340, 66348>>, <<66379, 66383>>, <<66427, 66431>>,
     <<66462, 66462>>, <<66500, 66503>>, <<66518, 66559>>, <<66718, 66719>>,
     <<66730, 66735>>, <<66772, 66775>>, <<66812, 66815>>, <<66856, 66863>>,
     <<66916, 66926>>, <<66939, 66939>>, <<66955, 66955>>, <<66963, 66963>>,
     <<66966, 66966>>, <<66978, 66978>>, <<66994, 66994>>, <<67002, 67002>>,
     <<67005, 67007>>, <<67060, 67071>>, <<67383, 67391>>, <<67414, 67423>>,
     <<67432, 67455>>, <<67462, 67462>>, <<67505, 67505>>, <<67515, 67583>>,
     <<67590, 67591>>, <<67593, 67593>>, <<67638, 67638>>, <<67641, 67643>>,
     <<67645, 67646>>, <<67670, 67670>>, <<67743, 67750>>, <<67760, 67807>>,
     <<67827, 67827>>, <<67830, 67834>>, <<67868, 67870>>, <<67898, 67902>>,
     <<67930, 67967>>, <<68024, 68027>>, <<68048, 68049>>, <<68100, 68100>>,
     <<68103, 68107>>, <<68116, 68116>>, <<68120, 68120>>, <<68150, 68151>>,
     <<68155, 68158>>, <<68169, 68175>>, <<68185, 68191>>, <<68256, 68287>>,
     <<68327, 68330>>, <<68343, 68351>>, <<68406, 68408>>, <<68438, 68439>>,
     <<68467, 68471>>, <<68498, 68504>>, <<68509, 68520>>, <<68528, 68607>>,
     <<68681, 68735>>, <<68787, 68799>>, <<68851, 68857>>, <<68904, 68911>>,
     <<68922, 68927>>, <<68966, 68968>>, <<68998, 69005>>, <<69008, 69215>>,
     <<69247, 69247>>, <<69290, 69290>>, <<69294, 69295>>, <<69298, 69313>>,
     <<69320, 69327>>, <<69337, 69369>>, <<69416, 69423>>, <<69466, 69487>>,
     <<69514, 69551>>, <<69580, 69599>>, <<69623, 69631>>, <<69710, 69713>>,
     <<69750, 69758>>, <<69827, 69836>>, <<69838, 69839>>, <<69865, 69871>>,
     <<69882, 69887>>, <<69941, 69941>>, <<69960, 69967>>, <<70007, 70015>>,
     <<70112, 70112>>, <<70133, 70143>>, <<70162, 70162>>, <<70210, 70271>>,
     <<70279, 70279>>, <<70281, 70281>>, <<70286, 70286>>, <<70302, 70302>>,
     <<70314, 70319>>, <<70379, 70383>>, <<70394, 70399>>, <<70404, 70404>>,
     <<70413, 70414>>, <<70417, 70418>>, <<70441, 70441>>, <<70449, 70449>>,
     <<70452, 70452>>, <<70458, 70458>>, <<70469, 70470>>, <<70473, 70474>>,
     <<70478, 70479>>, <<70481, 70486>>, <<70488, 70492>>, <<70500, 70501>>,
     <<70509, 70511>>, <<70517, 70527>>, <<70538, 70538>>, <<70540, 70541>>,
     <<70543, 70543>>, <<70582, 70582>>, <<70593, 70593>>, <<70595, 70596>>,
     <<70598, 70598>>, <<70603, 70603>>, <<70614, 70614>>, <<70617, 70624>>,
     <<70627, 70655>>, <<70748, 70748>>, <<70754, 70783>>, <<70856, 70863>>,
     <<70874, 71039>>, <<71094, 71095>>, <<71134, 71167>>, <<71237, 71247>>,
     <<71258, 71263>>, <<71277, 71295>>, <<71354, 71359>>, <<71370, 71375>>,
     <<71396, 71423>>, <<71451, 71452>>, <<71468, 71471>>, <<71495, 71679>>,
     <<71740, 71839>>, <<71923, 71934>>, <<71943, 71944>>, <<71946, 71947>>,
     <<71956, 71956>>, <<71959, 71959>>, <<71990, 71990>>, <<71993, 71994>>,
     <<72007, 72015>>, <<72026, 72095>>, <<72104, 72105>>, <<72152, 72153>>,
     <<72165, 72191>>, <<72264, 72271>>, <<72355, 72367>>, <<72441, 72447>>,
     <<72458, 72543>>, <<72552, 72639>>, <<72674, 72687>>, <<72698, 72703>>,
     <<72713, 72713>>, <<72759, 72759>>, <<72774, 72783>>, <<72813, 72815>>,
     <<72848, 72849>>, <<72872, 72872>>, <<72887, 72959>>, <<72967, 72967>>,
     <<72970, 72970>>, <<73015, 73017>>, <<73019, 73019>>, <<73022, 73022>>,
     <<73032, 73039>>, <<73050, 73055>>, <<73062, 73062>>, <<73065, 73065>>,
     <<73103, 73103>>, <<73106, 73106>>, <<73113, 73119>>, <<73130, 73135>>,
     <<73180, 73183>>, <<73194, 73439>>, <<73465, 73471>>, <<73489, 73489>>,
     <<73531, 73533>>, <<73563, 73647>>, <<73649, 73663>>, <<73714, 73726>>,
     <<74650, 74751>>, <<74863, 74863>>, <<74869, 74879>>, <<75076, 77711>>,
     <<77811, 77823>>, <<78934, 78943>>, <<82939, 82943>>, <<83527, 90367>>,
     <<90426, 92159>>, <<92729, 92735>>, <<92767, 92767>>, <<92778, 92781>>,
     <<92863, 92863>>, <<92874, 92879>>, <<92910, 92911>>, <<92918, 92927>>,
     <<92998, 93007>>, <<93018, 93018>>, <<93026, 93026>>, <<93048, 93052>>,
     <<93072, 93503>>, <<93562, 93759>>, <<93851, 93855>>, <<93881, 93882>>,
     <<93908, 93951>>, <<94027, 94030>>, <<94088, 94094>>, <<94112, 94175>>,
     <<94181, 94191>>, <<94199, 94207>>, <<101590, 101630>>,
     <<101663, 101759>>, <<101875, 110575>>, <<110580, 110580>>,
     <<110588, 110588>>, <<110591, 110591>>, <<110883, 110897>>,
     <<110899, 110927>>, <<110931, 110932>>, <<110934, 110947>>,
     <<110952, 110959>>, <<111356, 113663>>, <<113771, 113775>>,
     <<113789, 113791>>, <<113801, 113807>>, <<113818, 113819>>,
     <<113828, 117759>>, <<118013, 118015>>, <<118452, 118457>>,
     <<118481, 118495>>, <<118513, 118527>>, <<118574, 118575>>,
     <<118599, 118607>>, <<118724, 118783>>, <<119030, 119039>>,
     <<119079, 119080>>, <<119275, 119295>>, <<119366, 119487>>,
     <<119508, 119519>>, <<119540, 119551>>, <<119639, 119647>>,
     <<119673, 119807>>, <<119893, 119893>>, <<119965, 119965>>,
     <<119968, 119969>>, <<119971, 119972>>, <<119975, 119976>>,
     <<119981, 119981>>, <<119994, 119994>>, <<119996, 119996>>,
     <<120004, 120004>>, <<120070, 120070>>, <<120075, 120076>>,
     <<120085, 120085>>, <<120093, 120093>>, <<120122, 120122>>,
     <<120127, 120127>>, <<120133, 120133>>, <<120135, 120137>>,
     <<120145, 120145>>, <<120486, 120487>>, <<120780, 120781>>,
     <<121484, 121498>>, <<121504, 121504>>, <<121520, 122623>>,
     <<122655, 122660>>, <<122667, 122879>>, <<122887, 122887>>,
     <<122905, 122906>>, <<122914, 122914>>, <<122917, 122917>>,
     <<122923, 122927>>, <<122990, 123022>>, <<123024, 123135>>,
     <<123181, 123183>>, <<123198, 123199>>, <<123210, 123213>>,
     <<123216, 123535>>, <<123567, 123583>>, <<123642, 123646>>,
     <<123648, 124111>>, <<124154, 124367>>, <<124411, 124414>>,
     <<124416, 124607>>, <<124639, 124639>>, <<124662, 124669>>,
     <<124672, 124895>>, <<124903, 124903>>, <<124908, 124908>>,
     <<124911, 124911>>, <<124927, 124927>>, <<125125, 125126>>,
     <<125143, 125183>>, <<125260, 125263>>, <<125274, 125277>>,
     <<125280, 126064>>, <<126133, 126208>>, <<126270, 126463>>,
     <<126468, 126468>>, <<126496, 126496>>, <<126499, 126499>>,
     <<126501, 126502>>, <<126504, 126504>>, <<126515, 126515>>,
     <<126520, 126520>>, <<126522, 126522>>, <<126524, 126529>>,
     <<126531, 126534>>, <<126536, 126536>>, <<126538, 126538>>,
     <<126540, 126540>>, <<126544, 126544>>, <<126547, 126547>>,
     <<126549, 126550>>, <<126552, 126552>>, <<126554, 126554>>,
     <<126556, 126556>>, <<126558, 126558>>, <<126560, 126560>>,
     <<126563, 126563>>, <<126565, 126566>>, <<126571, 126571>>,
     <<126579, 126579>>, <<126584, 126584>>, <<126589, 126589>>,
     <<126591, 126591>>, <<126602, 126602>>, <<126620, 126624>>,
     <<126628, 126628>>, <<126634, 126634>>, <<126652, 126703>>,
     <<126706, 126975>>, <<127020, 127023>>, <<127124, 127135>>,
     <<127151, 127152>>, <<127168, 127168>>, <<127184, 127184>>,
     <<127222, 127231>>, <<127406, 127461>>, <<127491, 127503>>,
     <<127548, 127551>>, <<127561, 127567>>, <<127570, 127583>>,
     <<127590, 127743>>, <<128729, 128731>>, <<128749, 128751>>,
     <<128765, 128767>>, <<128986, 128991>>, <<129004, 129007>>,
     <<129009, 129023>>, <<129036, 129039>>, <<129096, 129103>>,
     <<129114, 129119>>, <<129160, 129167>>, <<129198, 129199>>,
     <<129212, 129215>>, <<129218, 129231>>, <<129241, 129279>>,
     <<129624, 129631>>, <<129646, 129647>>, <<129661, 129663>>,
     <<129675, 129677>>, <<129735, 129735>>, <<129737, 129740>>,
     <<129757, 129758>>, <<129771, 129774>>, <<129785, 129791>>,
     <<129939, 129939>>, <<130043, 131071>>, <<173792, 173823>>,
     <<178206, 178207>>, <<183982, 183983>>, <<191457, 191471>>,
     <<192094, 194559>>, <<195102, 196607>>, <<201547, 201551>>,
     <<210042, 917504>>, <<917506, 917535>>, <<917632, 917759>>,
     <<918000, 983039>>, <<1048574, 1048575>>, <<1114110, 1114111>>
    >>

RECURSIVE RangeSearch(_, _, _, _)
\* cp lies in one of ranges[lo..hi] (binary search of the ascending ranges)
RangeSearch(ranges, lo, hi, cp) ==
    IF lo > hi THEN FALSE
    ELSE LET mid == (lo + hi) \div 2
         IN IF cp < ranges[mid][1] THEN RangeSearch(ranges, lo, mid - 1, cp)
            ELSE IF cp > ranges[mid][2] THEN RangeSearch(ranges, mid + 1, hi, cp)
            ELSE TRUE

InRanges(cp, ranges) == RangeSearch(ranges, 1, Len(ranges), cp)

\* The general category of a code point, as far as the regex tells categories
\* apart: Cc, Cf, Cs (a lone surrogate), Co, Cn, or "other" for an assigned
\* code point of any other category.
GeneralCategory(cp) ==
    IF InRanges(cp, CcRanges) THEN "Cc"
    ELSE IF InRanges(cp, CfRanges) THEN "Cf"
    ELSE IF InRanges(cp, CsRanges) THEN "Cs"
    ELSE IF InRanges(cp, CoRanges) THEN "Co"
    ELSE IF InRanges(cp, CnRanges) THEN "Cn"
    ELSE "other"

\* /[\p{Cc}\p{Cf}\p{Cs}\p{Co}\p{Cn}]/u matches this code point
IsNonPrintable(cp) == GeneralCategory(cp) \in {"Cc", "Cf", "Cs", "Co", "Cn"}

\* NON_PRINTABLE_REGEX.test(ch) for a one-code-point string ch, the regex
\* being global: the search starts at lastIndex; a match leaves lastIndex at
\* its end, a failure (or a lastIndex past the end) leaves 0.
RegexTest(ch, li) ==
    IF li >= Len(ch) THEN [matched |-> FALSE, lastIndex |-> 0]
    ELSE IF IsNonPrintable(codePointAt(ch, 0))
         THEN [matched |-> TRUE, lastIndex |-> Len(ch)]
         ELSE [matched |-> FALSE, lastIndex |-> 0]

-----------------------------------------------------------------------------
(* The well-known code point table *)

NamedCodePoints ==
    {0, 9, 10, 13, 8203, 8204, 8205, 160, 8232, 8233, 173, 1564, 8206, 8207,
     8234, 8235, 8236, 8237, 8238, 8294, 8295, 8296, 8297}

NAMED(cp) ==
    CASE cp = 0 -> [name |-> "NULL", category |-> "Cc"]
      [] cp = 9 -> [name |-> "TAB", category |-> "Cc"]
      [] cp = 10 -> [name |-> "LINE FEED", category |-> "Cc"]
      [] cp = 13 -> [name |-> "CARRIAGE RETURN", category |-> "Cc"]
      [] cp = 8203 -> [name |-> "ZERO WIDTH SPACE", category |-> "Cf"]
      [] cp = 8204 -> [name |-> "ZERO WIDTH NON-JOINER", category |-> "Cf"]
      [] cp = 8205 -> [name |-> "ZERO WIDTH JOINER", category |-> "Cf"]
      [] cp = 160 -> [name |-> "NO-BREAK SPACE", category |-> "Zs"]
      [] cp = 8232 -> [name |-> "LINE SEPARATOR", category |-> "Zl"]
      [] cp = 8233 -> [name |-> "PARAGRAPH SEPARATOR", category |-> "Zp"]
      [] cp = 173 -> [name |-> "SOFT HYPHEN", category |-> "Cf"]
      [] cp = 1564 -> [name |-> "ARABIC LETTER MARK", category |-> "Cf"]
      [] cp = 8206 -> [name |-> "LEFT-TO-RIGHT MARK", category |-> "Cf"]
      [] cp = 8207 -> [name |-> "RIGHT-TO-LEFT MARK", category |-> "Cf"]
      [] cp = 8234 -> [name |-> "LEFT-TO-RIGHT EMBEDDING", category |-> "Cf"]
      [] cp = 8235 -> [name |-> "RIGHT-TO-LEFT EMBEDDING", category |-> "Cf"]
      [] cp = 8236 -> [name |-> "POP DIRECTIONAL FORMATTING", category |-> "Cf"]
      [] cp = 8237 -> [name |-> "LEFT-TO-RIGHT OVERRIDE", category |-> "Cf"]
      [] cp = 8238 -> [name |-> "RIGHT-TO-LEFT OVERRIDE", category |-> "Cf"]
      [] cp = 8294 -> [name |-> "LEFT-TO-RIGHT ISOLATE", category |-> "Cf"]
      [] cp = 8295 -> [name |-> "RIGHT-TO-LEFT ISOLATE", category |-> "Cf"]
      [] cp = 8296 -> [name |-> "FIRST STRONG ISOLATE", category |-> "Cf"]
      [] cp = 8297 -> [name |-> "POP DIRECTIONAL ISOLATE", category |-> "Cf"]

\* named?.name ?? hex(cp)
NameOf(cp) == IF cp \in NamedCodePoints THEN NAMED(cp).name ELSE hex(cp)

\* named?.category ?? "C*"
CategoryOf(cp) == IF cp \in NamedCodePoints THEN NAMED(cp).category ELSE "C*"

-----------------------------------------------------------------------------
(* findNonPrintable: the flat list, by String.prototype.matchAll *)

Occurrence(i, cp) ==
    [index |-> i, char |-> fromCodePoint(cp), codePoint |-> cp,
     name |-> NameOf(cp), category |-> CategoryOf(cp)]

RECURSIVE MatchAllFrom(_, _, _)
\* input.matchAll(NON_PRINTABLE_REGEX): the regex has the u flag, so the
\* search goes code point by code point (a surrogate pair is one character, a
\* lone surrogate is a Cs character) and resumes after each match.
MatchAllFrom(input, i, acc) ==
    IF i >= Len(input) THEN acc
    ELSE LET cp == codePointAt(input, i)
         IN MatchAllFrom(input, i + Len(fromCodePoint(cp)),
                         IF IsNonPrintable(cp) THEN Append(acc, cp) ELSE acc)

RECURSIVE MatchIndexFrom(_, _, _)
\* the m.index of each match of matchAll, in order
MatchIndexFrom(input, i, acc) ==
    IF i >= Len(input) THEN acc
    ELSE LET cp == codePointAt(input, i)
         IN MatchIndexFrom(input, i + Len(fromCodePoint(cp)),
                           IF IsNonPrintable(cp) THEN Append(acc, i) ELSE acc)

\* matchAll works on a clone of the regex that starts at the regex's
\* lastIndex and leaves the regex itself untouched.
findNonPrintable(input, li) ==
    LET cps == MatchAllFrom(input, li, <<>>)
        idx == MatchIndexFrom(input, li, <<>>)
    IN [k \in 1..Len(cps) |-> Occurrence(idx[k], cps[k])]

-----------------------------------------------------------------------------
(* findNonPrintableWithPositions: the scan *)

PositionedOccurrence(i, cp, line, column) ==
    [index |-> i, char |-> fromCodePoint(cp), codePoint |-> cp,
     name |-> NameOf(cp), category |-> CategoryOf(cp),
     line |-> line, column |-> column]

\* the scan with a CR never merged with the LF after it
ScanNextIsLFNever(input, i, ch) == FALSE

\* const next = input.codePointAt(i + ch.length); if (next === 0x0a)
ScanNextIsLF(input, i, ch) == codePointAt(input, i + Len(ch)) = LF

\* else if (cp === 0x0a || cp === 0x2028 || cp === 0x2029)
ScanIsLineBreak(cp) == cp = LF \/ cp = LS \/ cp = PS

\* a scan that leaves lastIndex where the test left it
ScanAfterTestNoReset(t) == t.lastIndex

\* NON_PRINTABLE_REGEX.lastIndex = 0, in both branches of the test
ScanAfterTest(t) == 0

RECURSIVE ScanFrom(_, _, _, _, _, _)
\* one iteration of the for loop per call; li is the regex's lastIndex
ScanFrom(input, i, line, column, results, li) ==
    IF i >= Len(input) THEN [results |-> results, lastIndex |-> li]
    ELSE LET cp == codePointAt(input, i)
             ch == fromCodePoint(cp)
             t == RegexTest(ch, li)
             res == IF t.matched
                    THEN Append(results, PositionedOccurrence(i, cp, line, column))
                    ELSE results
         IN IF cp = CR
            THEN IF ScanNextIsLF(input, i, ch)
                 THEN ScanFrom(input, i + Len(ch) + Len(fromCodePoint(LF)),
                               line + 1, 1, res, ScanAfterTest(t))
                 ELSE ScanFrom(input, i + Len(ch), line + 1, 1, res, ScanAfterTest(t))
            ELSE IF ScanIsLineBreak(cp)
            THEN ScanFrom(input, i + Len(ch), line + 1, 1, res, ScanAfterTest(t))
            ELSE ScanFrom(input, i + Len(ch), line, column + 1, res, ScanAfterTest(t))

findNonPrintableWithPositions(input, li) == ScanFrom(input, 0, 1, 1, <<>>, li)

-----------------------------------------------------------------------------
(* stripNonPrintable *)

RECURSIVE StripFrom(_, _, _)
StripFrom(input, i, out) ==
    IF i >= Len(input) THEN out
    ELSE LET cp == codePointAt(input, i)
             ch == fromCodePoint(cp)
         IN StripFrom(input, i + Len(ch), IF IsNonPrintable(cp) THEN out ELSE out \o ch)

\* input.replace(NON_PRINTABLE_REGEX, ""): replace with a global regex
\* starts from lastIndex 0 and leaves lastIndex 0.
stripNonPrintable(input) == [out |-> StripFrom(input, 0, <<>>), lastIndex |-> 0]

-----------------------------------------------------------------------------
(* summarizeNonPrintable: the frequency table *)

RECURSIVE FreqInsert(_, _, _)
\* freq.get(key) ?? {count: 0, ...}; current.count += 1; freq.set(key, current)
\* on a Map kept as the sequence of its entries in insertion order
FreqInsert(freq, k, cp) ==
    IF k > Len(freq)
    THEN Append(freq, [codePoint |-> cp, name |-> NameOf(cp),
                       category |-> CategoryOf(cp), count |-> 1])
    ELSE IF freq[k].codePoint = cp
         THEN [freq EXCEPT ![k].count = @ + 1]
         ELSE FreqInsert(freq, k + 1, cp)

RECURSIVE FreqOf(_, _, _)
FreqOf(cps, k, freq) ==
    IF k > Len(cps) THEN freq
    ELSE FreqOf(cps, k + 1, FreqInsert(freq, 1, cps[k]))

\* the comparator without its tie-break on the code point
CompareCountOnly(a, b) == b.count - a.count

\* (a, b) => b.count - a.count || a.codePoint - b.codePoint
Compare(a, b) ==
    IF b.count - a.count # 0 THEN b.count - a.count ELSE a.codePoint - b.codePoint

RECURSIVE SortInsert(_, _, _)
\* x placed after every element that does not come after it (a stable sort)
SortInsert(sorted, k, x) ==
    IF k > Len(sorted) THEN Append(sorted, x)
    ELSE IF Compare(sorted[k], x) > 0
         THEN SubSeq(sorted, 1, k - 1) \o <<x>> \o SubSeq(sorted, k, Len(sorted))
         ELSE SortInsert(sorted, k + 1, x)

RECURSIVE SortFrom(_, _, _)
\* Array.prototype.sort with the comparator, which is stable
SortFrom(entries, k, sorted) ==
    IF k > Len(entries) THEN sorted
    ELSE SortFrom(entries, k + 1, SortInsert(sorted, 1, entries[k]))

summarizeNonPrintable(input, li) ==
    SortFrom(FreqOf(MatchAllFrom(input, li, <<>>), 1, <<>>), 1, <<>>)

-----------------------------------------------------------------------------
(* visualizeWithTokens: the annotated rendering *)

classifyToken(codePoint, category) ==
    IF codePoint = 8203 THEN "token-zwsp"
    ELSE IF codePoint = 160 THEN "token-nbsp"
    ELSE IF codePoint = 173 THEN "token-soft"
    ELSE IF codePoint \in {8206, 8207, 8234, 8235, 8236, 8237, 8238,
                           8294, 8295, 8296, 8297} THEN "token-bidi"
    ELSE IF category = "Cc" THEN "token-cc"
    ELSE IF category = "Cf" THEN "token-cf"
    ELSE IF category = "Cs" THEN "token-cs"
    ELSE IF category = "Co" THEN "token-co"
    ELSE IF category = "Cn" THEN "token-cn"
    ELSE "token-cf"

\* escape of one code unit: & -> &amp;  < -> &lt;  > -> &gt;
escapeUnit(u) ==
    IF u = 38 THEN <<38, 97, 109, 112, 59>>
    ELSE IF u = 60 THEN <<38, 108, 116, 59>>
    ELSE IF u = 62 THEN <<38, 103, 116, 59>>
    ELSE <<u>>

RECURSIVE escape(_)
\* s.replace(/&/g, "&amp;").replace(/</g, "&lt;").replace(/>/g, "&gt;")
escape(s) == IF s = <<>> THEN <<>> ELSE escapeUnit(Head(s)) \o escape(Tail(s))

\* `${name} (${hex(cp)}) \u2014 Category ${category} \u2014 at ${line}:${column}`,
\* the EM DASH written \u2014 here as in a JavaScript literal; the names,
\* categories and numbers hold no &, < or >, so escape(title) is title.
Title(name, cp, category, line, column) ==
    name \o " (" \o hex(cp) \o ") \\u2014 Category " \o category \o " \\u2014 at "
         \o ToString(line) \o ":" \o ToString(column)

\* The markup is kept as the sequence of the pieces appended to result: a
\* placeholder span (its class and its title attribute) or an escaped copy.
TokenItem(cp, line, column) ==
    [kind |-> "token", cls |-> classifyToken(cp, CategoryOf(cp)),
     title |-> Title(NameOf(cp), cp, CategoryOf(cp), line, column), units |-> <<>>]

CopyItem(char) == [kind |-> "copy", cls |-> "", title |-> "", units |-> escape(char)]

\* the rendering with a CR never merged with the LF after it
VisNextIsLFNever(input, i, char) == FALSE

\* const next = input.codePointAt(i + char.length); if (next === 0x0a)
VisNextIsLF(input, i, char) == codePointAt(input, i + Len(char)) = LF

\* else if (cp === 0x0a || cp === 0x2028 || cp === 0x2029)
VisIsLineBreak(cp) == cp = LF \/ cp = LS \/ cp = PS

\* NON_PRINTABLE_REGEX.lastIndex = 0, right after the test
VisAfterTest(t) == 0

RECURSIVE VisFrom(_, _, _, _, _, _, _)
VisFrom(input, i, line, column, result, count, li) ==
    IF i >= Len(input) THEN [html |-> result, count |-> count, lastIndex |-> li]
    ELSE LET cp == codePointAt(input, i)
             char == fromCodePoint(cp)
             t == RegexTest(char, li)
             isHidden == t.matched
             res == Append(result, IF isHidden THEN TokenItem(cp, line, column)
                                               ELSE CopyItem(char))
             cnt == IF isHidden THEN count + 1 ELSE count
         IN IF cp = CR
            THEN IF VisNextIsLF(input, i, char)
                 THEN VisFrom(input, i + Len(char) + Len(fromCodePoint(LF)),
                              line + 1, 1, res, cnt, VisAfterTest(t))
                 ELSE VisFrom(input, i + Len(char), line + 1, 1, res, cnt, VisAfterTest(t))
            ELSE IF VisIsLineBreak(cp)
            THEN VisFrom(input, i + Len(char), line + 1, 1, res, cnt, VisAfterTest(t))
            ELSE VisFrom(input, i + Len(char), line, column + 1, res, cnt, VisAfterTest(t))

visualizeWithTokens(input, li) == VisFrom(input, 0, 1, 1, <<>>, 0, li)

-----------------------------------------------------------------------------
(* cleanText: the cleaner *)

OptionKeys ==
    {"removeCc", "removeCf", "removeCs", "removeCo", "removeCn",
     "preserveTab", "preserveLF", "preserveCR",
     "removeZWSP", "nbspToSpace", "normalizeDashes", "normalizeQuotes"}

defaultCleanOptions ==
    [removeCc |-> TRUE, removeCf |-> TRUE, removeCs |-> TRUE, removeCo |-> TRUE,
     removeCn |-> TRUE, preserveTab |-> TRUE, preserveLF |-> TRUE,
     preserveCR |-> FALSE, removeZWSP |-> TRUE, nbspToSpace |-> TRUE,
     normalizeDashes |-> TRUE, normalizeQuotes |-> TRUE]

DashCodePoints == {8208, 8209, 8210, 8211, 8212, 8722}
SingleQuoteCodePoints == {8216, 8217, 8218, 8219, 8242}
DoubleQuoteCodePoints == {8220, 8221, 8222, 8223, 8243}

\* a dash table that writes a dash as two hyphens
DASH_MAP_SoftHyphen(cp) == IF cp \in {8208, 8209, 8210, 8211, 8212, 8722} THEN <<173>> ELSE <<>>

DASH_MAP_Double(cp) == IF cp \in {8208, 8209, 8210, 8211, 8212, 8722} THEN <<45, 45>> ELSE <<>>

\* DASH_MAP[cp]: "-" or undefined
DASH_MAP(cp) == IF cp \in DashCodePoints THEN <<45>> ELSE <<>>

\* a quote table that maps DOUBLE PRIME (U+2033) to the single quote
QUOTE_MAP_PrimeSwapped(cp) ==
    IF cp \in {8216, 8217, 8218, 8219, 8242, 8243} THEN <<39>>
    ELSE IF cp \in {8220, 8221, 8222, 8223} THEN <<34>>
    ELSE <<>>

\* QUOTE_MAP[cp]: "'" or '"' or undefined
QUOTE_MAP(cp) ==
    IF cp \in SingleQuoteCodePoints THEN <<39>>
    ELSE IF cp \in DoubleQuoteCodePoints THEN <<34>>
    ELSE <<>>

\* shouldRemove, from the category string of the name table (or "C*")
shouldRemove(cat, options) ==
    \/ (cat = "Cc" /\ options.removeCc)
    \/ (cat = "Cf" /\ options.removeCf)
    \/ (cat = "Cs" /\ options.removeCs)
    \/ (cat = "Co" /\ options.removeCo)
    \/ (cat = "Cn" /\ options.removeCn)

\* preservation overrides that keep a TAB under preserveLF
IsPreservedTabByLF(cp, options) ==
    \/ (cp = 9 /\ options.preserveLF)
    \/ (cp = 10 /\ options.preserveLF)
    \/ (cp = 13 /\ options.preserveCR)

\* the TAB / LF / CR preservation overrides
IsPreserved(cp, options) ==
    \/ (cp = TAB /\ options.preserveTab)
    \/ (cp = LF /\ options.preserveLF)
    \/ (cp = CR /\ options.preserveCR)

\* NON_PRINTABLE_REGEX.lastIndex = 0, first statement after a matching test
CleanAfterMatch(t) == 0

\* What one iteration of the loop appends to out for the code point cp (ch
\* its string), and the regex's lastIndex after it.
CleanStep(cp, ch, options, li) ==
    IF options.nbspToSpace /\ cp = NBSP THEN [emit |-> <<32>>, lastIndex |-> li]
    ELSE IF options.normalizeDashes /\ DASH_MAP(cp) # <<>>
    THEN [emit |-> DASH_MAP(cp), lastIndex |-> li]
    ELSE IF options.normalizeQuotes /\ QUOTE_MAP(cp) # <<>>
    THEN [emit |-> QUOTE_MAP(cp), lastIndex |-> li]
    ELSE IF options.removeZWSP /\ cp = ZWSP THEN [emit |-> <<>>, lastIndex |-> li]
    ELSE IF RegexTest(ch, li).matched
    THEN [emit |-> IF IsPreserved(cp, options) THEN ch
                   ELSE IF shouldRemove(CategoryOf(cp), options) THEN <<>>
                   ELSE ch,
          lastIndex |-> CleanAfterMatch(RegexTest(ch, li))]
    ELSE [emit |-> ch, lastIndex |-> RegexTest(ch, li).lastIndex]

RECURSIVE CleanFrom(_, _, _, _, _)
CleanFrom(input, i, out, options, li) ==
    IF i >= Len(input) THEN [out |-> out, lastIndex |-> li]
    ELSE LET cp == codePointAt(input, i)
             ch == fromCodePoint(cp)
             step == CleanStep(cp, ch, options, li)
         IN CleanFrom(input, i + Len(ch), out \o step.emit, options, step.lastIndex)

cleanText(input, options, li) == CleanFrom(input, 0, <<>>, options, li)

-----------------------------------------------------------------------------
(* positionToIndex and jumpToIndex (page.tsx) *)

\* a reverse mapping that never merges a CR with the LF after it
PosNextIsLFNever(src, i, ch) == FALSE

\* const next = src.codePointAt(i + ch.length); if (next === 0x0a)
PosNextIsLF(src, i, ch) == codePointAt(src, i + Len(ch)) = LF

\* if (cp === 0x0a || cp === 0x2028 || cp === 0x2029)
PosIsLineBreak(cp) == cp = LF \/ cp = LS \/ cp = PS

RECURSIVE PosFrom(_, _, _, _, _, _)
\* one iteration of the for loop per call
PosFrom(src, i, curLine, curCol, line, column) ==
    IF i >= Len(src) THEN Len(src)
    ELSE IF curLine = line /\ curCol = column THEN i
    ELSE LET cp == codePointAt(src, i)
             ch == fromCodePoint(cp)
         IN IF cp = CR
            THEN IF PosNextIsLF(src, i, ch)
                 THEN PosFrom(src, i + Len(ch) + Len(fromCodePoint(LF)),
                              curLine + 1, 1, line, column)
                 ELSE PosFrom(src, i + Len(ch), curLine + 1, 1, line, column)
            ELSE IF PosIsLineBreak(cp)
            THEN PosFrom(src, i + Len(ch), curLine + 1, 1, line, column)
            ELSE PosFrom(src, i + Len(ch), curLine, curCol + 1, line, column)

positionToIndex(src, line, column) ==
    IF line < 1 \/ column < 1 THEN 0 ELSE PosFrom(src, 0, 1, 1, line, column)

Min(a, b) == IF a < b THEN a ELSE b
Max(a, b) == IF a > b THEN a ELSE b

\* jumpToIndex(index, length): the selection handed to setSelectionRange
jumpToIndex(t, index, length) ==
    LET start == Max(0, Min(index, Len(t)))
    IN [start |-> start, end |-> Max(start, Min(start + length, Len(t)))]

-----------------------------------------------------------------------------
(* Inputs *)

\* every text of at most n code units over the set units
Texts(units, n) == UNION {[1..k -> units] : k \in 0..n}

\* Code units typed in the scan specification: A, &, CR, LF, LINE SEPARATOR,
\* ZERO WIDTH SPACE, NO-BREAK SPACE, the reserved U+0378, the high surrogates
\* D83D and DB80 and the low surrogate DC00 (D83D DC00 is U+1F400, a symbol;
\* DB80 DC00 is U+F0000, private use; each alone is a lone surrogate).
ScanUnits == {65, 38, CR, LF, LS, ZWSP, NBSP, 888, 55357, 56192, 56320}

\* Code units typed in the jump specification: A, CR, LF, LINE SEPARATOR,
\* ZERO WIDTH SPACE, the high surrogate D83D and the low surrogate DC00.
JumpUnits == {65, CR, LF, LS, ZWSP, 55357, 56320}

\* Code units of the texts pasted in the scan specification: A, CR and ZERO
\* WIDTH SPACE.
PasteUnits == {65, CR, ZWSP}

\* Code units typed in the file specification: the high surrogate DB80 and
\* the low surrogate DC00 (DB80 DC00 is U+F0000, an occurrence of two code
\* units; each alone is an occurrence of one).
FileUnits == {56192, 56320}

\* "caf\u00e9\r\n\u00a0word"
ScenarioNbsp == <<99, 97, 102, 233, 13, 10, 160, 119, 111, 114, 100>>

\* "\t\n"
ScenarioTabLf == <<9, 10>>

\* "A\u200BB"
ScenarioZwsp == <<65, 8203, 66>>

\* texts read from a file
Files == {ScenarioNbsp, ScenarioTabLf, ScenarioZwsp}

\* the files the user picks or drops: a name and the text file.text() gives
Uploads ==
    {[name |-> "scenario2.txt", content |-> ScenarioNbsp],
     [name |-> "scenario5.txt", content |-> ScenarioTabLf],
     [name |-> "scenario1.txt", content |-> ScenarioZwsp]}

\* Code points cleaned one at a time under every options record: A, TAB, LF,
\* CR, NO-BREAK SPACE, ZERO WIDTH SPACE, U+0001, NULL, SOFT HYPHEN, U+FEFF,
\* U+E000, U+FFFF, lone D83D, lone DC00, U+F0000, U+1F400, the reserved
\* U+0378, and every dash and quote variant.
CleanCodePoints ==
    {65, TAB, LF, CR, NBSP, ZWSP, 1, 0, 173, 65279, 57344, 65535, 55357, 56320,
     983040, 128000, 888} \cup DashCodePoints \cup SingleQuoteCodePoints
                     \cup DoubleQuoteCodePoints

\* the one-code-point texts and the file texts
ShortCleanTexts == {fromCodePoint(cp) : cp \in CleanCodePoints} \cup Files

\* Code units of the longer texts that are cleaned: A, ZERO WIDTH SPACE,
\* NO-BREAK SPACE, the high surrogate D83D and the low surrogate DC00.
CleanUnits == {65, ZWSP, NBSP, 55357, 56320}

\* the flags cleanText can tell apart on a text over CleanUnits
CleanUnitKeys == {"removeZWSP", "removeCf", "removeCs", "nbspToSpace"}

\* Code units of the printable ASCII texts that are cleaned: space, the
\* straight quotes, hyphen-minus and tilde.
AsciiUnits == {32, 34, 39, 45, 126}

\* the smart-replace flags whose replacement is a printable ASCII character
AsciiKeys == {"nbspToSpace", "normalizeDashes", "normalizeQuotes"}

\* Code units typed before the exported functions are called directly: A,
\* CR, ZERO WIDTH SPACE, the high surrogate D83D and the low surrogate DC00.
CallUnits == {65, CR, ZWSP, 55357, 56320}

\* the flags a direct call of cleanText varies
CallKeys == {"removeZWSP", "preserveCR"}

\* the checkboxes ticked and unticked in the cleaning specification
ToggleKeys == {"removeZWSP", "removeCf"}

AllOptions == [OptionKeys -> BOOLEAN]

\* the options records that differ from the default in the flags of keys only
OptionsVarying(keys) ==
    {[k \in OptionKeys |-> IF k \in keys THEN f[k] ELSE defaultCleanOptions[k]] :
        f \in [keys -> BOOLEAN]}

\* The values the textarea hands to onChange after one keystroke at the end
\* of the text t: a unit typed (while the text is shorter than MaxLen), or
\* the last unit deleted
ChangeValues(t, units) ==
    {Append(t, u) : u \in IF Len(t) < MaxLen THEN units ELSE {}}
        \cup {SubSeq(t, 1, Len(t) - 1) : k \in IF t = <<>> THEN {} ELSE {1}}

\* The clipboard texts pasted into the text t: not empty, and short enough
\* for the text to stay within MaxLen
PasteValues(t, units) ==
    {p \in Texts(units, MaxLen) :
        p # <<>> /\ Len(t) + (IF t = <<>> THEN 0 ELSE 1) + Len(p) <= MaxLen}

-----------------------------------------------------------------------------
(* The page: state and handlers *)

\* The four useMemo views of a render, computed in the order of the source;
\* matchAll (findNonPrintable, summarizeNonPrintable) reads the regex's
\* lastIndex and leaves it.  The views are keyed by the text: a handler that
\* sets the text it already has leaves them, and calls none of the four.
Render(t, li) ==
    LET p == findNonPrintableWithPositions(t, li)
        v == visualizeWithTokens(t, p.lastIndex)
    IN IF t = text
       THEN /\ UNCHANGED <<matches, positioned, summary, preview>>
            /\ lastIndex' = li
       ELSE /\ matches' = findNonPrintable(t, li)
            /\ positioned' = p.results
            /\ summary' = summarizeNonPrintable(t, p.lastIndex)
            /\ preview' = [html |-> v.html, count |-> v.count]
            /\ lastIndex' = v.lastIndex

\* no jump was made since the text was set
NoJump == [line |-> 0, column |-> 0, index |-> 0, start |-> 0, end |-> 0]

\* no exported function was called directly since the last handler
NoCall == [op |-> "none", start |-> 0, options |-> defaultCleanOptions, value |-> <<>>]

\* useState<string | null>(null)
NoFileName == <<>>

\* positioned.slice(0, 500): the rows of the list
MaxRows == 500

\* the state after the first render: empty text, default options
Init ==
    /\ text = <<>>
    /\ opts = defaultCleanOptions
    /\ lastIndex = 0
    /\ matches = <<>>
    /\ positioned = <<>>
    /\ summary = <<>>
    /\ preview = [html |-> <<>>, count |-> 0]
    /\ prev = <<>>
    /\ phase = "init"
    /\ jump = NoJump
    /\ fileName = NoFileName
    /\ pending = <<>>
    /\ listMode = FALSE
    /\ returned = NoCall

\* the textarea's onChange: setText(e.target.value)
OnChange(value) ==
    /\ text' = value
    /\ Render(text', lastIndex)
    /\ prev' = <<>>
    /\ phase' = "changed"
    /\ jump' = NoJump
    /\ returned' = NoCall
    /\ UNCHANGED <<opts, fileName, pending, listMode>>

\* onPaste: if (pasted) setText(prev => prev.length ? prev + "\n" + pasted : pasted)
OnPaste(pasted) ==
    /\ pasted # <<>>
    /\ text' = IF Len(text) # 0 THEN text \o <<LF>> \o pasted ELSE pasted
    /\ Render(text', lastIndex)
    /\ prev' = <<>>
    /\ phase' = "pasted"
    /\ jump' = NoJump
    /\ returned' = NoCall
    /\ UNCHANGED <<opts, fileName, pending, listMode>>

\* onUpload / onDrop up to the await: setFileName(file.name), and the read of
\* the file starts
OnUploadStart(file) ==
    /\ Len(pending) < MaxPending
    /\ fileName' = <<file.name>>
    /\ pending' = Append(pending, file)
    /\ prev' = <<>>
    /\ phase' = "reading"
    /\ returned' = NoCall
    /\ UNCHANGED <<text, opts, lastIndex, matches, positioned, summary, preview,
                   jump, listMode>>

\* onUpload / onDrop after the await: the k-th read in flight resolves, and
\* setText(content)
OnUploadResolve(k) ==
    /\ k \in 1..Len(pending)
    /\ text' = pending[k].content
    /\ Render(text', lastIndex)
    /\ pending' = SubSeq(pending, 1, k - 1) \o SubSeq(pending, k + 1, Len(pending))
    /\ prev' = <<>>
    /\ phase' = "uploaded"
    /\ jump' = NoJump
    /\ returned' = NoCall
    /\ UNCHANGED <<opts, fileName, listMode>>

\* onClean (its button is disabled while the text is empty):
\* setText((t) => cleanText(t, opts)), then the render
OnClean ==
    LET c == cleanText(text, opts, lastIndex)
    IN /\ text # <<>>
       /\ text' = c.out
       /\ Render(text', c.lastIndex)
       /\ prev' = text
       /\ phase' = "cleaned"
       /\ jump' = NoJump
       /\ returned' = NoCall
       /\ UNCHANGED <<opts, fileName, pending, listMode>>

\* onClear (its button is disabled while the text is empty):
\* setText(""); setFileName(null)
OnClear ==
    /\ text # <<>>
    /\ text' = <<>>
    /\ Render(text', lastIndex)
    /\ fileName' = NoFileName
    /\ prev' = <<>>
    /\ phase' = "cleared"
    /\ jump' = NoJump
    /\ returned' = NoCall
    /\ UNCHANGED <<opts, pending, listMode>>

\* toggle(key): setOpts((o) => ({ ...o, [key]: !o[key] }))
Toggle(key) ==
    /\ opts' = [opts EXCEPT ![key] = ~opts[key]]
    /\ prev' = <<>>
    /\ phase' = "toggled"
    /\ returned' = NoCall
    /\ UNCHANGED <<text, lastIndex, matches, positioned, summary, preview, jump,
                   fileName, pending, listMode>>

\* the "Show List" button (disabled while count is 0): setListMode((v) => !v)
OnToggleListMode ==
    /\ preview.count # 0
    /\ listMode' = ~listMode
    /\ prev' = <<>>
    /\ phase' = "listmode"
    /\ returned' = NoCall
    /\ UNCHANGED <<text, opts, lastIndex, matches, positioned, summary, preview,
                   jump, fileName, pending>>

\* onJumpSubmit with the line and column fields parsed to finite numbers:
\* jumpToIndex(positionToIndex(text, line, col), 1)
OnJumpSubmit(line, col) ==
    LET idx == positionToIndex(text, line, col)
        sel == jumpToIndex(text, idx, 1)
    IN /\ jump' = [line |-> line, column |-> col, index |-> idx,
                   start |-> sel.start, end |-> sel.end]
       /\ phase' = "jumped"
       /\ prev' = <<>>
       /\ returned' = NoCall
       /\ UNCHANGED <<text, opts, lastIndex, matches, positioned, summary, preview,
                      fileName, pending, listMode>>

\* the Jump button of the k-th row of the list (the list is shown in list
\* mode and holds the first 500 occurrences): jumpToIndex(m.index, m.char.length)
OnJumpRow(k) ==
    /\ listMode
    /\ k \in 1..Min(Len(positioned), MaxRows)
    /\ LET m == positioned[k]
           sel == jumpToIndex(text, m.index, Len(m.char))
       IN jump' = [line |-> m.line, column |-> m.column, index |-> m.index,
                   start |-> sel.start, end |-> sel.end]
    /\ phase' = "rowjumped"
    /\ prev' = <<>>
    /\ returned' = NoCall
    /\ UNCHANGED <<text, opts, lastIndex, matches, positioned, summary, preview,
                   fileName, pending, listMode>>

\* the page as it is typed into, pasted into, cleaned and cleared
Next ==
    \/ \E value \in ChangeValues(text, ScanUnits) : OnChange(value)
    \/ \E pasted \in PasteValues(text, PasteUnits) : OnPaste(pasted)
    \/ OnClean
    \/ OnClear

Spec == Init /\ [][Next]_vars

\* the page with its files and its list: a file is picked or dropped, the
\* user goes on typing while it is read, the read resolves; the list is
\* shown or hidden, and the Jump button of one of its rows is clicked
NextFiles ==
    \/ \E file \in Uploads : OnUploadStart(file)
    \/ \E k \in 1..MaxPending : OnUploadResolve(k)
    \/ \E value \in ChangeValues(text, FileUnits) : OnChange(value)
    \/ OnClear
    \/ OnToggleListMode
    \/ \E k \in 1..MaxLen : OnJumpRow(k)

SpecFiles == Init /\ [][NextFiles]_vars

\* the page with its jump form: a line and a column up to one past the
\* text's length in code units, or 0
NextJump ==
    \/ \E value \in ChangeValues(text, JumpUnits) : OnChange(value)
    \/ \E line, col \in 0..(Len(text) + 1) : OnJumpSubmit(line, col)

SpecJump == Init /\ [][NextJump]_vars

\* A direct call of an exported function on the current text: what it
\* returned, the regex's lastIndex when it started, and the lastIndex it left
Called(op, options, value, li) ==
    /\ returned' = [op |-> op, start |-> lastIndex, options |-> options, value |-> value]
    /\ lastIndex' = li
    /\ phase' = "called"
    /\ UNCHANGED <<text, opts, matches, positioned, summary, preview, prev, jump,
                   fileName, pending, listMode>>

\* matchAll leaves the regex's lastIndex as it was
CallFindNonPrintable ==
    Called("findNonPrintable", opts, findNonPrintable(text, lastIndex), lastIndex)

CallFindNonPrintableWithPositions ==
    LET p == findNonPrintableWithPositions(text, lastIndex)
    IN Called("findNonPrintableWithPositions", opts, p.results, p.lastIndex)

CallStripNonPrintable ==
    LET r == stripNonPrintable(text)
    IN Called("stripNonPrintable", opts, r.out, r.lastIndex)

CallSummarizeNonPrintable ==
    Called("summarizeNonPrintable", opts, summarizeNonPrintable(text, lastIndex), lastIndex)

CallVisualizeWithTokens ==
    LET v == visualizeWithTokens(text, lastIndex)
    IN Called("visualizeWithTokens", opts, [html |-> v.html, count |-> v.count], v.lastIndex)

CallCleanText(options) ==
    LET c == cleanText(text, options, lastIndex)
    IN Called("cleanText", options, c.out, c.lastIndex)

\* The page's handlers interleaved with direct calls of the six exported
\* functions, in any order
NextCalls ==
    \/ \E value \in ChangeValues(text, CallUnits) : OnChange(value)
    \/ OnClean
    \/ CallFindNonPrintable
    \/ CallFindNonPrintableWithPositions
    \/ CallStripNonPrintable
    \/ CallSummarizeNonPrintable
    \/ CallVisualizeWithTokens
    \/ \E options \in OptionsVarying(CallKeys) : CallCleanText(options)

SpecCalls == Init /\ [][NextCalls]_vars

\* A page whose text was set and whose checkboxes were then ticked or
\* unticked by the user, about to be cleaned
InitClean ==
    /\ \/ text \in ShortCleanTexts /\ opts \in AllOptions
       \/ /\ text \in Texts(CleanUnits, MaxCleanLen)
          /\ opts \in OptionsVarying(CleanUnitKeys)
       \/ /\ text \in Texts(AsciiUnits, MaxCleanLen)
          /\ opts \in OptionsVarying(AsciiKeys)
    /\ lastIndex = 0
    /\ matches = findNonPrintable(text, 0)
    /\ positioned = findNonPrintableWithPositions(text, 0).results
    /\ summary = summarizeNonPrintable(text, 0)
    /\ preview = [html |-> visualizeWithTokens(text, 0).html,
                  count |-> visualizeWithTokens(text, 0).count]
    /\ prev = <<>>
    /\ phase = "toggled"
    /\ jump = NoJump
    /\ fileName = NoFileName
    /\ pending = <<>>
    /\ listMode = FALSE
    /\ returned = NoCall

\* the page as its checkboxes are ticked and unticked and its text cleaned
NextClean ==
    \/ OnClean
    \/ \E key \in ToggleKeys : Toggle(key)

SpecClean == InitClean /\ [][NextClean]_vars

-----------------------------------------------------------------------------
(* Reference definitions the properties are stated with *)

\* the offsets at which a code point of s starts: every offset but that of a
\* low surrogate right after a high one
CodePointStarts(s) ==
    {i \in 0..(Len(s) - 1) :
        ~(i > 0 /\ IsLowSurrogate(s[i + 1]) /\ IsHighSurrogate(s[i]))}

\* the number of code points of s, a surrogate pair counting as one
CodePointCount(s) == Cardinality(CodePointStarts(s))

\* the offsets of the code points of s the classifier matches
MatchedStarts(s) == {i \in CodePointStarts(s) : IsNonPrintable(codePointAt(s, i))}

\* a line break starts at offset p: a CR, a LINE or PARAGRAPH SEPARATOR, or
\* an LF that does not follow a CR
IsBreakStart(s, p) ==
    \/ s[p + 1] \in {13, 8232, 8233}
    \/ s[p + 1] = 10 /\ ~(p > 0 /\ s[p] = 13)

\* the offset just after the line break that starts at p
BreakEnd(s, p) ==
    IF s[p + 1] = 13 /\ p + 1 < Len(s) /\ s[p + 2] = 10 THEN p + 2 ELSE p + 1

\* the line breaks that lie wholly before offset idx
BreaksBefore(s, idx) ==
    {p \in 0..(idx - 1) : IsBreakStart(s, p) /\ BreakEnd(s, p) <= idx}

\* the offset at which the line of offset idx starts
LineStart(s, idx) ==
    IF BreaksBefore(s, idx) = {} THEN 0
    ELSE CHOOSE e \in {BreakEnd(s, p) : p \in BreaksBefore(s, idx)} :
            \A p \in BreaksBefore(s, idx) : BreakEnd(s, p) <= e

RECURSIVE SumCounts(_)
SumCounts(entries) ==
    IF entries = <<>> THEN 0 ELSE Head(entries).count + SumCounts(Tail(entries))

\* the placeholder spans of a markup, in order
TokensOf(html) == SelectSeq(html, LAMBDA it : it.kind = "token")

-----------------------------------------------------------------------------
(* Properties of the views (specification Spec) *)

\* C1: the counts of the frequency table add up to the number of occurrences
\* the scan returns, for every text (CR, LF and CR LF included).
C1_CountConservation == SumCounts(summary) = Len(positioned)

\* C2: the flat list is the scan stripped of line and column: same length and,
\* position by position, the same index, char, codePoint, name and category.
C2_FlatListIsScan ==
    /\ Len(matches) = Len(positioned)
    /\ \A k \in 1..Len(matches) :
          k <= Len(positioned) =>
             /\ matches[k].index = positioned[k].index
             /\ matches[k].char = positioned[k].char
             /\ matches[k].codePoint = positioned[k].codePoint
             /\ matches[k].name = positioned[k].name
             /\ matches[k].category = positioned[k].category

\* C3: every occurrence of the scan has line = 1 + the number of line breaks
\* (CR LF counted once, lone CR, lone LF, U+2028, U+2029) wholly before its
\* index, and column = 1 + the number of code points between the end of the
\* last such break (or the start of the text) and its index; both are >= 1.
C3_PositionConsistency ==
    \A k \in 1..Len(positioned) :
        LET o == positioned[k]
        IN /\ o.line = 1 + Cardinality(BreaksBefore(text, o.index))
           /\ o.column = 1 + CodePointCount(SubSeq(text, LineStart(text, o.index) + 1, o.index))
           /\ o.line >= 1
           /\ o.column >= 1

\* C3 witness: an occurrence right after a CR LF, on line 2 at column 1
C3_Witness ==
    /\ phase = "changed"
    /\ text = <<13, 10, 8203>>
    /\ \E k \in 1..Len(positioned) :
          /\ positioned[k].index = 2
          /\ positioned[k].line = 2
          /\ positioned[k].column = 1

\* C5: for "caf\u00e9\r\n\u00a0word" the scan returns an occurrence with code
\* point U+00A0, named NO-BREAK SPACE, at line 2, column 1.
C5_NbspReported ==
    text = ScenarioNbsp =>
        \E k \in 1..Len(positioned) :
            /\ positioned[k].codePoint = 160
            /\ positioned[k].name = "NO-BREAK SPACE"
            /\ positioned[k].line = 2
            /\ positioned[k].column = 1

\* C9: the frequency table has exactly one entry per distinct matched code
\* point, with count >= 1 equal to the number of times the code point is
\* matched in the text, sorted by descending count, ties by ascending code
\* point, whatever the order of first appearance.
C9_FrequencyTableShape ==
    /\ \A k \in 1..Len(summary) :
          /\ summary[k].count >= 1
          /\ summary[k].count =
                Cardinality({i \in MatchedStarts(text) :
                                codePointAt(text, i) = summary[k].codePoint})
    /\ \A j, k \in 1..Len(summary) :
          j # k => summary[j].codePoint # summary[k].codePoint
    /\ \A i \in MatchedStarts(text) :
          \E k \in 1..Len(summary) : summary[k].codePoint = codePointAt(text, i)
    /\ \A k \in 1..(Len(summary) - 1) :
          \/ summary[k].count > summary[k + 1].count
          \/ /\ summary[k].count = summary[k + 1].count
             /\ summary[k].codePoint < summary[k + 1].codePoint

\* C9 witness: two code points matched equally often, the one of the larger
\* value appearing first in the text and second in the table; a third entry
\* or a repeated code point is not needed for the tie to be decided.
C9_Witness ==
    /\ phase = "changed"
    /\ Len(summary) = 2
    /\ summary[1].count = summary[2].count
    /\ codePointAt(text, 0) = summary[2].codePoint
    /\ summary[1].codePoint < summary[2].codePoint

\* C10: the rendering's count is the number of occurrences of the scan, the
\* markup holds exactly count placeholder spans, and the k-th span's tooltip
\* carries the name, code point, category, line and column of the k-th
\* occurrence of the scan.
C10_RenderingAgreesWithScan ==
    /\ preview.count = Len(positioned)
    /\ Len(TokensOf(preview.html)) = preview.count
    /\ \A k \in 1..Len(TokensOf(preview.html)) :
          k <= Len(positioned) =>
             TokensOf(preview.html)[k].title =
                Title(positioned[k].name, positioned[k].codePoint,
                      positioned[k].category, positioned[k].line,
                      positioned[k].column)

\* C10 witness: CR LF then a ZERO WIDTH SPACE: two spans, the second one for
\* the ZERO WIDTH SPACE at 2:1
C10_Witness ==
    /\ phase = "changed"
    /\ text = <<13, 10, 8203>>
    /\ preview.count = 2
    /\ Len(positioned) = 2
    /\ TokensOf(preview.html)[2].title =
          "ZERO WIDTH SPACE (U+200B) \\u2014 Category Cf \\u2014 at 2:1"

-----------------------------------------------------------------------------
(* Properties of the cleaner (specification SpecClean) *)

\* the remove flag of a general category
RemoveFlagOf(cat, o) ==
    \/ cat = "Cc" /\ o.removeCc
    \/ cat = "Cf" /\ o.removeCf
    \/ cat = "Cs" /\ o.removeCs
    \/ cat = "Co" /\ o.removeCo
    \/ cat = "Cn" /\ o.removeCn

\* the text cleaned was the one code point cp
CleanedOne(cp) == phase = "cleaned" /\ prev = fromCodePoint(cp)

\* C4: a code point the classifier matches (Cc, Cf, Cs, Co or Cn), not
\* handled by an enabled smart-replace rule and not kept by a TAB/LF/CR
\* preservation override, is dropped iff the remove flag of its own category
\* is set, and is otherwise emitted unchanged; in the name table or not.
C4_CategoryRemoval ==
    \A cp \in CleanCodePoints :
        ( /\ CleanedOne(cp)
          /\ IsNonPrintable(cp)
          /\ ~(opts.removeZWSP /\ cp = 8203)
          /\ ~(cp = 9 /\ opts.preserveTab)
          /\ ~(cp = 10 /\ opts.preserveLF)
          /\ ~(cp = 13 /\ opts.preserveCR) )
        => IF RemoveFlagOf(GeneralCategory(cp), opts) THEN text = <<>> ELSE text = prev

\* C6: the cleaned text has at most as many code points as the text cleaned,
\* surrogate pairs and lone surrogates included, under every options record.
C6_LengthMonotone ==
    phase = "cleaned" => CodePointCount(text) <= CodePointCount(prev)

\* C6 witness: lone D83D, ZERO WIDTH SPACE, lone DC00 (three code points)
\* cleaned to the pair D83D DC00 (one code point)
C6_Witness ==
    /\ phase = "cleaned"
    /\ prev = <<55357, 8203, 56320>>
    /\ text = <<55357, 56320>>
    /\ CodePointCount(prev) = 3
    /\ CodePointCount(text) = 1

\* C7: the smart-replace rules fire first, whatever the category-removal and
\* preservation flags: with nbspToSpace U+00A0 becomes a space; with
\* normalizeDashes each dash variant becomes '-'; with normalizeQuotes each
\* single-quote variant becomes ' and each double-quote variant "; with
\* removeZWSP U+200B is dropped.  With the flag of its rule clear, a NO-BREAK
\* SPACE, dash variant or quote variant is emitted unchanged.
C7_SmartReplace ==
    /\ CleanedOne(160) => text = (IF opts.nbspToSpace THEN <<32>> ELSE prev)
    /\ \A cp \in {8208, 8209, 8210, 8211, 8212, 8722} :
          CleanedOne(cp) => text = (IF opts.normalizeDashes THEN <<45>> ELSE prev)
    /\ \A cp \in {8216, 8217, 8218, 8219, 8242} :
          CleanedOne(cp) => text = (IF opts.normalizeQuotes THEN <<39>> ELSE prev)
    /\ \A cp \in {8220, 8221, 8222, 8223, 8243} :
          CleanedOne(cp) => text = (IF opts.normalizeQuotes THEN <<34>> ELSE prev)
    /\ (CleanedOne(8203) /\ opts.removeZWSP) => text = <<>>

\* C7 witness: DOUBLE PRIME cleaned to " with every category-removal flag
\* clear and every preservation flag set
C7_Witness ==
    /\ CleanedOne(8243)
    /\ text = <<34>>
    /\ opts.normalizeQuotes
    /\ ~opts.removeCc /\ ~opts.removeCf /\ ~opts.removeCs
    /\ ~opts.removeCo /\ ~opts.removeCn
    /\ opts.preserveTab /\ opts.preserveLF /\ opts.preserveCR

\* the preserve flag of a TAB, LF or CR
PreserveFlagOf(u, o) ==
    \/ u = 9 /\ o.preserveTab
    \/ u = 10 /\ o.preserveLF
    \/ u = 13 /\ o.preserveCR

\* C8: in a text of TABs, LFs and CRs, each is emitted unchanged when its
\* preserve flag is set, whatever removeCc, and dropped when its preserve
\* flag is clear and removeCc is set; "\t\n" is unchanged under the default
\* options and becomes "\n" with preserveTab = false and removeCc = true.
C8_ControlPreservation ==
    /\ ( /\ phase = "cleaned"
         /\ \A k \in 1..Len(prev) :
               /\ prev[k] \in {9, 10, 13}
               /\ PreserveFlagOf(prev[k], opts) \/ opts.removeCc )
       => text = SelectSeq(prev, LAMBDA u : PreserveFlagOf(u, opts))
    /\ (phase = "cleaned" /\ prev = <<9, 10>> /\ opts = defaultCleanOptions)
       => text = <<9, 10>>
    /\ ( /\ phase = "cleaned"
         /\ prev = <<9, 10>>
         /\ opts = [defaultCleanOptions EXCEPT !.preserveTab = FALSE] )
       => text = <<10>>

\* C8 witness: "\t\n" cleaned to "\n" with preserveTab clear and removeCc set
C8_Witness ==
    /\ phase = "cleaned"
    /\ prev = <<9, 10>>
    /\ text = <<10>>
    /\ ~opts.preserveTab
    /\ opts.preserveLF
    /\ opts.removeCc

\* every code unit of s is a printable ASCII character (U+0020..U+007E)
PrintableAscii(s) == \A k \in 1..Len(s) : s[k] \in 32..126

\* C12: cleaning is idempotent: a "Clean with options" click on a text that
\* is itself the output of cleanText under the same options leaves the text
\* as it is, for every text and every options record; and a click on a
\* printable ASCII text under the default options leaves it as it is.
C12_Idempotent ==
    [][ phase' = "cleaned" =>
          /\ (phase = "cleaned" /\ opts' = opts) => text' = text
          /\ (opts = defaultCleanOptions /\ PrintableAscii(text)) => text' = text
      ]_vars

\* C12 witness: A, NO-BREAK SPACE was cleaned to A, space, and that output
\* was cleaned again
C12_Witness ==
    /\ phase = "cleaned"
    /\ opts.nbspToSpace
    /\ prev = <<65, 32>>
    /\ text = <<65, 32>>

-----------------------------------------------------------------------------
(* Properties of the reverse mapping (specification SpecJump) *)

\* offset i is the LF of a CR LF pair
IsLFOfCRLF(s, i) == i > 0 /\ s[i + 1] = 10 /\ s[i] = 13

\* line and column of offset i by the scan's rules
LineOf(s, i) == 1 + Cardinality(BreaksBefore(s, i))
ColumnOf(s, i) == 1 + CodePointCount(SubSeq(s, LineStart(s, i) + 1, i))

\* C11: positionToIndex(s, o.line, o.column) is o.index for every occurrence
\* o of the scan; and for every code-point start offset i of s that is not
\* the LF of a CR LF pair, the line and column of i map back to i.
C11_ReverseMapping ==
    phase = "jumped" =>
        /\ \A k \in 1..Len(positioned) :
              (jump.line = positioned[k].line /\ jump.column = positioned[k].column)
                 => jump.index = positioned[k].index
        /\ \A i \in CodePointStarts(text) :
              ( /\ ~IsLFOfCRLF(text, i)
                /\ jump.line = LineOf(text, i)
                /\ jump.column = ColumnOf(text, i) )
                 => jump.index = i

\* C11 witness: the jump to 2:1 in CR LF ZERO WIDTH SPACE, where the scan
\* reports the ZERO WIDTH SPACE, selects offset 2
C11_Witness ==
    /\ phase = "jumped"
    /\ text = <<13, 10, 8203>>
    /\ jump.line = 2
    /\ jump.column = 1
    /\ jump.index = 2
    /\ \E k \in 1..Len(positioned) :
          positioned[k].line = 2 /\ positioned[k].column = 1 /\ positioned[k].index = 2

-----------------------------------------------------------------------------
(* Properties of the shared regex (specification SpecCalls) *)

\* what the call recorded in returned gives when it is the only call ever
\* made: the regex is then as the module created it, with lastIndex 0
OnlyCall(r, t) ==
    CASE r.op = "findNonPrintable" -> findNonPrintable(t, 0)
      [] r.op = "findNonPrintableWithPositions" -> findNonPrintableWithPositions(t, 0).results
      [] r.op = "stripNonPrintable" -> stripNonPrintable(t).out
      [] r.op = "summarizeNonPrintable" -> summarizeNonPrintable(t, 0)
      [] r.op = "visualizeWithTokens" ->
            [html |-> visualizeWithTokens(t, 0).html, count |-> visualizeWithTokens(t, 0).count]
      [] r.op = "cleanText" -> cleanText(t, r.options, 0).out
      [] OTHER -> <<>>

\* C13: NON_PRINTABLE_REGEX.lastIndex is 0 when an exported function starts
\* and when it returns, whatever calls came before; so every direct call
\* returns what the only call ever made with its arguments returns, and each
\* of the four views of a render (computed one after the other on the
\* shared regex) is what its function returns when called alone.
C13_CallIndependence ==
    /\ lastIndex = 0
    /\ returned.start = 0
    /\ returned.value = OnlyCall(returned, text)
    /\ matches = findNonPrintable(text, 0)
    /\ positioned = findNonPrintableWithPositions(text, 0).results
    /\ summary = summarizeNonPrintable(text, 0)
    /\ preview.html = visualizeWithTokens(text, 0).html
    /\ preview.count = visualizeWithTokens(text, 0).count

\* C13 witness: cleanText called directly on ZERO WIDTH SPACE, U+1F400 after
\* the render of that text tested both code points
C13_Witness ==
    /\ phase = "called"
    /\ text = <<8203, 55357, 56320>>
    /\ Len(positioned) = 1
    /\ returned.op = "cleanText"
    /\ returned.options.removeZWSP
    /\ returned.start = 0
    /\ returned.value = <<55357, 56320>>
    /\ lastIndex = 0

-----------------------------------------------------------------------------
(* Properties of the rendering's items (specification Spec) *)

\* the offset at which the k-th code point of s starts (k from 1)
CodePointStartAt(s, k) ==
    CHOOSE i \in CodePointStarts(s) :
        Cardinality({j \in CodePointStarts(s) : j < i}) = k - 1

\* C14: the markup holds exactly one item per code point of the text, in the
\* order of the text: a placeholder span for a code point the classifier
\* matches, the escaped copy of the code point otherwise; the LF of a CR LF
\* pair has its item like every other code point.
C14_EveryCodePointRendered ==
    /\ Len(preview.html) = CodePointCount(text)
    /\ \A k \in 1..CodePointCount(text) :
          k <= Len(preview.html) =>
             LET cp == codePointAt(text, CodePointStartAt(text, k))
             IN IF IsNonPrintable(cp)
                THEN preview.html[k].kind = "token"
                ELSE /\ preview.html[k].kind = "copy"
                     /\ preview.html[k].units = escape(fromCodePoint(cp))

=============================================================================
